---- MODULE Spec2Model ----
(***************************************************************************)
(* A model of coveralls-python's command line entry point                  *)
(* (src/coveralls/cli.py) and of its git context resolver                  *)
(* (src/coveralls/git.py).                                                 *)
(*                                                                         *)
(* Three specifications share the variables:                               *)
(*   SpecCli     one run of cli.main()                                     *)
(*   SpecBranch  one call of git.git_branch()                              *)
(*   SpecGit     one call of git.git_info()                                *)
(*                                                                         *)
(* Strings are sequences of tokens.  The token "/" is the character '/';   *)
(* every other token is a non-empty run of characters without '/'.  The    *)
(* words used are chosen so that no word is a prefix of another, which     *)
(* makes startswith and split on tokens agree with Python's on characters. *)
(* Python's None is the one-token sequence None, whose token occurs in no  *)
(* string.                                                                 *)
(***************************************************************************)
EXTENDS Naturals, Sequences, FiniteSets

VARIABLES
    entry,      \* which function this behaviour runs: "main", "git_branch", "git_info"
    pc,         \* position inside that function
    \* ---- cli.main ----
    options,    \* docopt's options, by truthiness
    logLevel,   \* level of the 'coveralls' logger
    tokenReq,   \* token_required handed to Coveralls()
    handlers,   \* handlers entered so far, in order
    calls,      \* methods of coverallz called so far, in order
    logs,       \* records the 'coveralls' logger emitted
    exit,       \* how main() ended
    \* ---- git.git_branch / git.git_info ----
    env,        \* os.environ
    reads,      \* environment variables read by git_branch(), in order
    cmds,       \* commands handed to run_command, in order
    procs,      \* what each of those commands did (Proc kinds), in order
    branch,     \* local `branch`
    collected,  \* values of the `head` dict literal evaluated so far (try block)
    ex,         \* the exception the except clause bound, or "none"
    gitlogs,    \* records the 'coveralls.git' logger emitted
    result      \* what git_info() / git_branch() produced

vars == <<entry, pc, options, logLevel, tokenReq, handlers, calls, logs, exit,
          env, reads, cmds, procs, branch, collected, ex, gitlogs, result>>

cliVars == <<options, logLevel, tokenReq, handlers, calls, logs, exit>>
gitVars == <<env, reads, cmds, procs, branch, collected, ex, gitlogs, result>>

(***************************************************************************)
(* Python values                                                           *)
(***************************************************************************)
None == <<"<None>">>

Truthy(v) == v # None /\ v # <<>>

Last(s) == s[Len(s)]

(***************************************************************************)
(*                         src/coveralls/cli.py                            *)
(***************************************************************************)

\* The keys of `options` that main() and setup_coveralls() test.
OptionNames == {"--merge", "debug", "--output", "--submit", "--finish", "--verbose"}

\* Exceptions a stage can raise, by what the except clauses distinguish:
\* a subclass of Exception, KeyboardInterrupt, or another BaseException.
ExcKinds == {"Exception", "KeyboardInterrupt", "SystemExit"}

\* sys.exit(1)
ExitFailure == 1

\* How main() ended: `how` is "return", "sys.exit" or "propagate" (an uncaught
\* exception); `code` is the exit status main() itself decides (0 on return,
\* the argument of sys.exit) and is not meaningful for "propagate".
Running == [how |-> "running", exc |-> "none", stage |-> "none", code |-> 0]

Log(level, msg) == [level |-> level, msg |-> msg]

\* Logger.isEnabledFor: DEBUG records are dropped unless the level is DEBUG.
Emit(lg, level, rec) ==
    IF rec.level = "DEBUG" /\ level # "DEBUG" THEN lg ELSE Append(lg, rec)

\* The except clauses of main() (lines 113-117) applied to an exception of
\* kind k raised inside the try block at stage st, the logger holding lg.
ExceptLogs(k, lg) ==
    IF k = "KeyboardInterrupt" THEN Append(lg, Log("INFO", "Aborted"))
    ELSE IF k = "Exception" THEN Append(lg, Log("ERROR", "Error running coveralls"))
    ELSE lg

\* Mutant: the `except Exception` clause without its sys.exit(1).
ExceptExitNoExit(k, st) ==
    IF k \in {"KeyboardInterrupt", "Exception"}
        THEN [how |-> "return", exc |-> k, stage |-> st, code |-> 0]
    ELSE [how |-> "propagate", exc |-> k, stage |-> st, code |-> 0]

ExceptExit(k, st) ==
    IF k = "KeyboardInterrupt"
        THEN [how |-> "return", exc |-> k, stage |-> st, code |-> 0]
    ELSE IF k = "Exception"
        THEN [how |-> "sys.exit", exc |-> k, stage |-> st, code |-> ExitFailure]
    ELSE [how |-> "propagate", exc |-> k, stage |-> st, code |-> 0]

\* An exception raised outside the try block leaves main() uncaught.
Propagate(k, st) == [how |-> "propagate", exc |-> k, stage |-> st, code |-> 0]

Returned == [how |-> "return", exc |-> "none", stage |-> "none", code |-> 0]

\* main(), lines 90-93: version lookup and docopt, then debug forces --verbose.
ForceVerbose(o) == IF o["debug"] THEN [o EXCEPT !["--verbose"] = TRUE] ELSE o

ParseOptions ==
    /\ entry = "main" /\ pc = "parse"
    /\ \/ \E o \in [OptionNames -> BOOLEAN] :
            /\ options' = ForceVerbose(o)
            /\ pc' = "setup"
            /\ exit' = exit
       \/ \E k \in ExcKinds :
            /\ options' = options
            /\ pc' = "exited"
            /\ exit' = Propagate(k, "parse")
    /\ UNCHANGED <<entry, logLevel, tokenReq, handlers, calls, logs>>
    /\ UNCHANGED gitVars

\* setup_coveralls(), lines 75-88, called at line 96 inside the try block.
LevelOf(o) == IF o["--verbose"] THEN "DEBUG" ELSE "INFO"

TokenRequired(o) == ~o["debug"] /\ ~o["--output"]

SetupCoveralls ==
    /\ entry = "main" /\ pc = "setup"
    /\ logLevel' = LevelOf(options)
    /\ tokenReq' = TokenRequired(options)
    /\ \/ /\ pc' = "dispatch"
          /\ UNCHANGED <<logs, exit>>
       \/ \E k \in ExcKinds :
            /\ pc' = "exited"
            /\ logs' = ExceptLogs(k, logs)
            /\ exit' = ExceptExit(k, "setup")
    /\ UNCHANGED <<entry, options, handlers, calls>>
    /\ UNCHANGED gitVars

\* Mutant: the table built with 'debug' ahead of '--merge'.
ActionHandlersDebugFirst == <<"debug", "--merge", "--output", "--submit", "--finish">>

\* The keys of action_handlers in insertion order (lines 98-104).
ActionHandlers == <<"--merge", "debug", "--output", "--submit", "--finish">>

\* The loop of lines 106-109: the first key whose option is truthy, from
\* position i on; "default" when the loop falls through to line 111.
RECURSIVE FirstAction(_, _)
FirstAction(o, i) ==
    IF i > Len(ActionHandlers) THEN "default"
    ELSE IF o[ActionHandlers[i]] THEN ActionHandlers[i]
    ELSE FirstAction(o, i + 1)

Selected(o) == FirstAction(o, 1)

\* Mutant: handle_debug without dry_run=True.
DebugCallNoDryRun == <<"wear()">>

\* What a handler does up to and including its one call on coverallz.
MergeCall == <<"merge">>
DebugCall == <<"wear(dry_run=True)">>
OutputCall == <<"save_report">>
SubmitCall == <<"submit_report">>
FinishCall == <<"parallel_finish">>
DefaultCall == <<"wear()">>

\* A handler that logs `before`, makes `call`, and on success logs `after`
\* and returns; k is "ok" or the kind of exception the call raised.
RunHandler(name, before, call, after, k) ==
    /\ entry = "main" /\ pc = "dispatch"
    /\ Selected(options) = name
    /\ handlers' = Append(handlers, name)
    /\ calls' = calls \o call
    /\ pc' = "exited"
    /\ IF k = "ok"
          THEN /\ logs' = after
               /\ exit' = Returned
          ELSE /\ logs' = ExceptLogs(k, before)
               /\ exit' = ExceptExit(k, "handler")
    /\ UNCHANGED <<entry, options, logLevel, tokenReq>>
    /\ UNCHANGED gitVars

Outcomes == {"ok"} \cup ExcKinds

\* line 99: lambda: coverallz.merge(options['--merge']); then `return`.
HandleMerge ==
    \E k \in Outcomes : RunHandler("--merge", logs, MergeCall, logs, k)

\* handle_debug, lines 50-52.
HandleDebug ==
    \E k \in Outcomes :
        LET l1 == Emit(logs, logLevel, Log("INFO", "Testing coveralls-python..."))
        IN RunHandler("debug", l1, DebugCall, l1, k)

\* handle_output, lines 54-56.
HandleOutput ==
    \E k \in Outcomes :
        LET l1 == Emit(logs, logLevel, Log("INFO", "Write coverage report to file..."))
        IN RunHandler("--output", l1, OutputCall, l1, k)

\* handle_submit, lines 58-60: open() can fail before submit_report is called.
HandleSubmit ==
    \/ \E k \in Outcomes : RunHandler("--submit", logs, SubmitCall, logs, k)
    \/ RunHandler("--submit", logs, <<>>, logs, "Exception")

\* handle_finish, lines 62-65.
HandleFinish ==
    \E k \in Outcomes :
        LET l1 == Emit(logs, logLevel, Log("INFO", "Finishing parallel jobs..."))
            l2 == Emit(l1, logLevel, Log("INFO", "Done"))
        IN RunHandler("--finish", l1, FinishCall, l2, k)

\* handle_default, lines 67-74; wear() returns a truthy or a falsy result.
HandleDefault ==
    \E k \in Outcomes, truthyResult \in BOOLEAN :
        LET l1 == Emit(logs, logLevel, Log("INFO", "Submitting coverage to coveralls.io..."))
            l2 == Emit(l1, logLevel, Log("INFO", "Coverage submitted!"))
            l3 == Emit(l2, logLevel, Log("DEBUG", "result"))
            l4 == IF truthyResult
                     THEN Emit(Emit(l3, logLevel, Log("INFO", "message")),
                               logLevel, Log("INFO", "url"))
                     ELSE l3
        IN RunHandler("default", l1, DefaultCall, l4, k)

(***************************************************************************)
(*                         src/coveralls/git.py                            *)
(***************************************************************************)

\* ---- bounds of the model ----
\* Longest remainder (in tokens) that follows a GITHUB_REF prefix.
MaxTail == 3
\* Most CI branch variables present in the environment at once.
MaxSetCI == 2
\* Most fallback variables that are unset or empty at once.
MaxMissing == 2
\* Most lines `git remote -v` prints.
MaxRemoteLines == 2

\* ---- str methods, on token sequences ----
StartsWith(s, p) == Len(s) >= Len(p) /\ SubSeq(s, 1, Len(p)) = p

\* str.split(sep, maxsplit): the list of parts; the last part is the
\* unsplit remainder once maxsplit separators were used.
RECURSIVE SplitFrom(_, _, _, _)
SplitFrom(s, sep, maxsplit, cur) ==
    IF s = <<>> THEN <<cur>>
    ELSE IF Head(s) = sep /\ maxsplit > 0
        THEN <<cur>> \o SplitFrom(Tail(s), sep, maxsplit - 1, <<>>)
    ELSE IF maxsplit = 0 THEN <<cur \o s>>
    ELSE SplitFrom(Tail(s), sep, maxsplit, Append(cur, Head(s)))

Split(s, sep, maxsplit) == SplitFrom(s, sep, maxsplit, <<>>)

\* str.strip() for the whitespace token "\n".
RECURSIVE LStrip(_)
LStrip(s) == IF s # <<>> /\ Head(s) = "\n" THEN LStrip(Tail(s)) ELSE s

RECURSIVE RStrip(_)
RStrip(s) ==
    IF s # <<>> /\ Last(s) = "\n" THEN RStrip(SubSeq(s, 1, Len(s) - 1)) ELSE s

Strip(s) == RStrip(LStrip(s))

\* ---- run_command, lines 14-26 ----
\* What subprocess.run and the decoding of its stdout can do:
\*   "ok"                  exit status 0, stdout decodes
\*   "CalledProcessError"  non-zero exit status (check=True)
\*   "OSError"             the executable cannot be started (git absent)
\*   "UnicodeDecodeError"  exit status 0, stdout is not UTF-8
Proc(kind, stdout) == [kind |-> kind, stdout |-> stdout]

\* The exception run_command leaves with, "none" when it returns.
RunCommandRaises(p) ==
    IF p.kind = "CalledProcessError" THEN "CoverallsException"
    ELSE IF p.kind = "ok" THEN "none"
    ELSE p.kind

\* The value run_command returns (line 26) when it returns.
RunCommandValue(p) == Strip(p.stdout)

\* ---- get_github_branch, lines 35-39 ----
RefsHeads == <<"refs", "/", "heads", "/">>
RefsTags == <<"refs", "/", "tags", "/">>

\* Mutant: split('/') without maxsplit, keeping the last path segment only.
get_github_branch_last_segment(e) ==
    LET github_ref == e["GITHUB_REF"]
    IN IF Truthy(github_ref)
          /\ (StartsWith(github_ref, RefsHeads) \/ StartsWith(github_ref, RefsTags))
          THEN Last(Split(github_ref, "/", Len(github_ref)))
          ELSE e["GITHUB_HEAD_REF"]

get_github_branch(e) ==
    LET github_ref == e["GITHUB_REF"]
    IN IF Truthy(github_ref)
          /\ (StartsWith(github_ref, RefsHeads) \/ StartsWith(github_ref, RefsTags))
          THEN Last(Split(github_ref, "/", 2))
          ELSE e["GITHUB_HEAD_REF"]

get_github_branch_reads(e) ==
    LET github_ref == e["GITHUB_REF"]
    IN IF Truthy(github_ref)
          /\ (StartsWith(github_ref, RefsHeads) \/ StartsWith(github_ref, RefsTags))
          THEN <<"GITHUB_REF">>
          ELSE <<"GITHUB_REF", "GITHUB_HEAD_REF">>

\* ---- get_ci_branch, lines 41-50 ----
\* Mutant: TRAVIS_BRANCH probed ahead of CIRCLE_BRANCH.
CiBranchVarsTravisFirst ==
    <<"APPVEYOR_REPO_BRANCH", "BUILDKITE_BRANCH", "CI_BRANCH", "TRAVIS_BRANCH",
      "GIT_BRANCH", "CIRCLE_BRANCH", "BRANCH_NAME">>

CiBranchVars ==
    <<"APPVEYOR_REPO_BRANCH", "BUILDKITE_BRANCH", "CI_BRANCH", "CIRCLE_BRANCH",
      "GIT_BRANCH", "TRAVIS_BRANCH", "BRANCH_NAME">>

\* a or b or ...: the first truthy operand, else the last operand.
RECURSIVE OrChain(_, _, _)
OrChain(e, names, i) ==
    IF i = Len(names) \/ Truthy(e[names[i]]) THEN e[names[i]]
    ELSE OrChain(e, names, i + 1)

get_ci_branch(e) == OrChain(e, CiBranchVars, 1)

RECURSIVE OrChainReads(_, _, _)
OrChainReads(e, names, i) ==
    IF i = Len(names) \/ Truthy(e[names[i]]) THEN <<names[i]>>
    ELSE <<names[i]>> \o OrChainReads(e, names, i + 1)

get_ci_branch_reads(e) == OrChainReads(e, CiBranchVars, 1)

\* ---- get_git_branch, lines 52-56 ----
\* `except Exception` recovers every failure of run_command.
get_git_branch(p) ==
    IF RunCommandRaises(p) = "none" THEN RunCommandValue(p) ELSE None

RevParse == <<"git", "rev-parse", "--abbrev-ref", "HEAD">>

\* ---- the environment ----
GithubVars == {"GITHUB_ACTIONS", "GITHUB_REF", "GITHUB_HEAD_REF"}

HeadFields ==
    <<"id", "author_name", "author_email", "committer_name", "committer_email",
      "message">>

\* gitlog's format for each head field (lines 89-94).
HeadFormats == <<"%H", "%aN", "%ae", "%cN", "%ce", "%s">>

\* The fallback variable of each head field (lines 108-113).
HeadEnv ==
    <<"GIT_ID", "GIT_AUTHOR_NAME", "GIT_AUTHOR_EMAIL", "GIT_COMMITTER_NAME",
      "GIT_COMMITTER_EMAIL", "GIT_MESSAGE">>

Range(s) == {s[i] : i \in 1..Len(s)}

CiVarSet == Range(CiBranchVars)
HeadVarSet == Range(HeadEnv)
RemoteVarSet == {"GIT_REMOTE", "GIT_URL"}

EnvNames == GithubVars \cup CiVarSet \cup HeadVarSet \cup RemoteVarSet

\* A variable is unset (None), set to the empty string, or set to a value:
\* the one-word string that names it, so that values tell their origin.
ValueFor(v, c) == IF c = "unset" THEN None ELSE IF c = "empty" THEN <<>> ELSE <<v>>

Choices == {"unset", "empty", "set"}

Tokens == {"/", "x"}

TailsOf(n) == UNION {[1..k -> Tokens] : k \in 0..n}

RefPrefixes == {<<>>, <<"refs", "/", "heads">>, RefsHeads, RefsTags}

GithubRefs == {None} \cup {p \o t : p \in RefPrefixes, t \in TailsOf(MaxTail)}

EnvNone == [v \in EnvNames |-> None]

\* Environments for git_branch(): the fallback variables play no part.
CiChoices ==
    {c \in [CiVarSet -> Choices] :
        Cardinality({v \in CiVarSet : c[v] # "unset"}) <= MaxSetCI}

BranchEnv(ga, ref, href, c) ==
    [v \in EnvNames |->
        IF v = "GITHUB_ACTIONS" THEN ga
        ELSE IF v = "GITHUB_REF" THEN ref
        ELSE IF v = "GITHUB_HEAD_REF" THEN href
        ELSE IF v \in CiVarSet THEN ValueFor(v, c[v])
        ELSE None]

\* The result record before the function returned.
NoHead == [i \in 1..Len(HeadFields) |-> None]

Pending ==
    [status |-> "pending", git |-> FALSE, branch |-> None, head |-> NoHead,
     remotes |-> <<>>, exc |-> "none"]

GitIdle ==
    /\ env = <<>> /\ reads = <<>> /\ cmds = <<>> /\ procs = <<>> /\ branch = None
    /\ collected = <<>> /\ ex = "none" /\ gitlogs = <<>>
    /\ result = Pending

CliIdle ==
    /\ options = [n \in OptionNames |-> FALSE]
    /\ logLevel = "NOTSET" /\ tokenReq = FALSE
    /\ handlers = <<>> /\ calls = <<>> /\ logs = <<>> /\ exit = Running

InitCli ==
    /\ entry = "main" /\ pc = "parse"
    /\ CliIdle
    /\ GitIdle

NextCli ==
    \/ ParseOptions
    \/ SetupCoveralls
    \/ HandleMerge
    \/ HandleDebug
    \/ HandleOutput
    \/ HandleSubmit
    \/ HandleFinish
    \/ HandleDefault

SpecCli == InitCli /\ [][NextCli]_vars

\* ---- git_branch, lines 58-61 ----
\* What `git rev-parse --abbrev-ref HEAD` can do.
RevParseProcs ==
    {Proc("ok", <<"master", "\n">>), Proc("ok", <<"\n">>),
     Proc("CalledProcessError", <<>>), Proc("OSError", <<>>),
     Proc("UnicodeDecodeError", <<>>)}

\* git_branch() returned b: git_info() goes on to line 88, a direct call
\* of git_branch() is over.
BranchReturns(b) ==
    /\ branch' = b
    /\ IF entry = "git_info"
          THEN /\ pc' = "gitlog"
               /\ result' = result
          ELSE /\ pc' = "done"
               /\ result' = [Pending EXCEPT !.status = "returned", !.branch = b]
    /\ UNCHANGED <<entry, env, collected, ex, gitlogs>>
    /\ UNCHANGED cliVars

\* line 59-60: GITHUB_ACTIONS is truthy.
BranchGithub ==
    /\ entry \in {"git_branch", "git_info"} /\ pc = "git_branch"
    /\ Truthy(env["GITHUB_ACTIONS"])
    /\ reads' = <<"GITHUB_ACTIONS">> \o get_github_branch_reads(env)
    /\ UNCHANGED <<cmds, procs>>
    /\ BranchReturns(get_github_branch(env))

\* line 61, get_ci_branch() truthy: `or` does not evaluate get_git_branch().
BranchCi ==
    /\ entry \in {"git_branch", "git_info"} /\ pc = "git_branch"
    /\ ~Truthy(env["GITHUB_ACTIONS"])
    /\ Truthy(get_ci_branch(env))
    /\ reads' = <<"GITHUB_ACTIONS">> \o get_ci_branch_reads(env)
    /\ UNCHANGED <<cmds, procs>>
    /\ BranchReturns(get_ci_branch(env))

\* line 61, get_ci_branch() falsy: the local query decides.
BranchLocal ==
    /\ entry \in {"git_branch", "git_info"} /\ pc = "git_branch"
    /\ ~Truthy(env["GITHUB_ACTIONS"])
    /\ ~Truthy(get_ci_branch(env))
    /\ reads' = <<"GITHUB_ACTIONS">> \o get_ci_branch_reads(env)
    /\ cmds' = Append(cmds, RevParse)
    /\ \E p \in RevParseProcs :
        /\ procs' = Append(procs, p.kind)
        /\ BranchReturns(get_git_branch(p))

InitBranch ==
    /\ entry = "git_branch" /\ pc = "git_branch"
    /\ CliIdle
    /\ \E ga \in {None, <<>>, <<"true">>}, ref \in GithubRefs,
          href \in {None, <<"GITHUB_HEAD_REF">>}, c \in CiChoices :
            env = BranchEnv(ga, ref, href, c)
    /\ reads = <<>> /\ cmds = <<>> /\ procs = <<>> /\ branch = None
    /\ collected = <<>> /\ ex = "none" /\ gitlogs = <<>>
    /\ result = Pending

NextBranch ==
    \/ BranchGithub
    \/ BranchCi
    \/ BranchLocal

SpecBranch == InitBranch /\ [][NextBranch]_vars

\* ---- git_info, lines 86-132 ----
\* gitlog(fmt), lines 29-32.
GitlogCmd(fmt) == <<"git", "--no-pager", "log", "-1", fmt>>

RemoteCmd == <<"git", "remote", "-v">>

\* What `git log -1 --pretty=format:<fmt>` can do.  Its output is the
\* one-word string that names the format; a subject line can be empty; a
\* commit id is hexadecimal, every other field can hold bytes that are not
\* UTF-8.
GitlogProcs(fmt) ==
    {Proc("ok", <<fmt>>), Proc("CalledProcessError", <<>>), Proc("OSError", <<>>)}
    \cup (IF fmt = "%H" THEN {} ELSE {Proc("UnicodeDecodeError", <<>>)})
    \cup (IF fmt = "%s" THEN {Proc("ok", <<>>)} ELSE {})

\* Lines `git remote -v` can print, as their words.
RemoteLineKinds ==
    {<<"origin", "url1", "(fetch)">>, <<"origin", "url1", "(push)">>,
     <<"upstream", "url2", "(fetch)">>, <<"(fetch)">>}

\* The words of a line separated by blanks; the lines, each ended by "\n".
RECURSIVE JoinWords(_)
JoinWords(ws) ==
    IF Len(ws) <= 1 THEN ws ELSE <<Head(ws), " ">> \o JoinWords(Tail(ws))

RECURSIVE JoinLines(_)
JoinLines(ls) ==
    IF ls = <<>> THEN <<>> ELSE JoinWords(Head(ls)) \o <<"\n">> \o JoinLines(Tail(ls))

RemoteStdouts == {JoinLines(ls) : ls \in UNION {[1..n -> RemoteLineKinds] : n \in 0..MaxRemoteLines}}

RemoteProcs ==
    {Proc("ok", out) : out \in RemoteStdouts}
    \cup {Proc("CalledProcessError", <<>>), Proc("OSError", <<>>),
          Proc("UnicodeDecodeError", <<>>)}

\* str.splitlines()
SplitLines(s) == IF s = <<>> THEN <<>> ELSE Split(s, "\n", Len(s))

\* str.split(): the words between runs of whitespace.
SelectWords(line) == SelectSeq(line, LAMBDA t : t \notin {" ", "\n"})

\* '(fetch)' in line
FetchWords == {"(fetch)"}
HasFetch(line) == \E i \in 1..Len(line) : line[i] \in FetchWords

\* The comprehension of lines 96-100 over the output `out` of run_command.
FetchLines(out) == SelectSeq(SplitLines(out), HasFetch)

\* line 97 raises IndexError on a '(fetch)' line of fewer than two words.
RemotesRaise(out) ==
    \E i \in 1..Len(FetchLines(out)) : Len(SelectWords(FetchLines(out)[i])) < 2

Remotes(out) ==
    [i \in 1..Len(FetchLines(out)) |->
        [name |-> SelectWords(FetchLines(out)[i])[1],
         url |-> SelectWords(FetchLines(out)[i])[2]]]

\* Mutant: the except clause fills in only the fields the try block had not
\* reached, keeping the live values already read.
HeadAfterFailureKeepLive(col, e) ==
    [i \in 1..Len(HeadFields) |-> IF i <= Len(col) THEN col[i] ELSE e[HeadEnv[i]]]

\* lines 107-114: `head` is rebound from the environment; what the dict
\* literal of lines 88-95 had evaluated (col) was never bound and is dropped.
HeadAfterFailure(col, e) == [i \in 1..Len(HeadFields) |-> e[HeadEnv[i]]]

\* lines 115-118
RemotesAfterFailure(e) == <<[name |-> e["GIT_REMOTE"], url |-> e["GIT_URL"]]>>

\* Mutant: only the commit id is required.
AllHeadIdOnly(h) == Truthy(h[1])

\* line 119: all(head.values())
AllHead(h) == \A i \in 1..Len(h) : Truthy(h[i])

Warning == [level |-> "WARNING", msg |-> "Failed collecting git data"]

\* The except clause, lines 101-124, and the return of lines 126-132 after it.
ExceptClause(exc) ==
    /\ ex' = exc
    /\ branch' = env["GIT_BRANCH"]
    /\ pc' = "done"
    /\ IF AllHead(HeadAfterFailure(collected, env))
          THEN /\ gitlogs' = gitlogs
               /\ result' = [status |-> "returned", git |-> TRUE,
                             branch |-> env["GIT_BRANCH"],
                             head |-> HeadAfterFailure(collected, env),
                             remotes |-> RemotesAfterFailure(env),
                             exc |-> "none"]
          ELSE /\ gitlogs' = Append(gitlogs, Warning)
               /\ result' = [Pending EXCEPT !.status = "returned"]
    /\ UNCHANGED collected

\* An exception the except clause does not name leaves git_info().
Raise(exc) ==
    /\ pc' = "done"
    /\ result' = [Pending EXCEPT !.status = "raised", !.exc = exc]
    /\ UNCHANGED <<branch, collected, ex, gitlogs>>

\* Mutant: the except clause names CoverallsException only.
CaughtNoOSError == {"CoverallsException"}

\* line 101: except (CoverallsException, OSError)
Caught == {"CoverallsException", "OSError"}

\* What follows a run_command call inside the try block that did p:
\* `onValue` when it returned, else the except clause or the propagation.
AfterCommand(p, onValue) ==
    IF RunCommandRaises(p) = "none" THEN onValue
    ELSE IF RunCommandRaises(p) \in Caught THEN ExceptClause(RunCommandRaises(p))
    ELSE Raise(RunCommandRaises(p))

\* One gitlog call of the dict literal, lines 89-94.
Gitlog ==
    /\ entry = "git_info" /\ pc = "gitlog"
    /\ cmds' = Append(cmds, GitlogCmd(HeadFormats[Len(collected) + 1]))
    /\ \E p \in GitlogProcs(HeadFormats[Len(collected) + 1]) :
        /\ procs' = Append(procs, p.kind)
        /\ AfterCommand(p,
              /\ collected' = Append(collected, RunCommandValue(p))
              /\ pc' = IF Len(collected) + 1 = Len(HeadFormats) THEN "remote" ELSE "gitlog"
              /\ UNCHANGED <<branch, ex, gitlogs, result>>)
    /\ UNCHANGED <<entry, env, reads>>
    /\ UNCHANGED cliVars

\* lines 96-100, then the return of lines 126-132.
Remote ==
    /\ entry = "git_info" /\ pc = "remote"
    /\ cmds' = Append(cmds, RemoteCmd)
    /\ \E p \in RemoteProcs :
        /\ procs' = Append(procs, p.kind)
        /\ AfterCommand(p,
              IF RemotesRaise(RunCommandValue(p))
                 THEN Raise("IndexError")
                 ELSE /\ pc' = "done"
                      /\ result' = [status |-> "returned", git |-> TRUE,
                                    branch |-> branch,
                                    head |-> collected,
                                    remotes |-> Remotes(RunCommandValue(p)),
                                    exc |-> "none"]
                      /\ UNCHANGED <<branch, collected, ex, gitlogs>>)
    /\ UNCHANGED <<entry, env, reads>>
    /\ UNCHANGED cliVars

\* Environments for git_info(): every fallback variable, with a few of the
\* variables that git_branch() reads.
FallbackVarSet == HeadVarSet \cup RemoteVarSet

FallbackChoices ==
    {c \in [FallbackVarSet -> Choices] :
        Cardinality({v \in FallbackVarSet : c[v] # "set"}) <= MaxMissing}

InfoEnv(ga, gb, c) ==
    [v \in EnvNames |->
        IF v = "GITHUB_ACTIONS" THEN ga
        ELSE IF v = "GITHUB_REF" THEN RefsHeads \o <<"x">>
        ELSE IF v = "GIT_BRANCH" THEN gb
        ELSE IF v \in FallbackVarSet THEN ValueFor(v, c[v])
        ELSE None]

InitGit ==
    /\ entry = "git_info" /\ pc = "git_branch"
    /\ CliIdle
    /\ \E ga \in {None, <<"true">>}, gb \in {None, <<"GIT_BRANCH">>},
          c \in FallbackChoices :
            env = InfoEnv(ga, gb, c)
    /\ reads = <<>> /\ cmds = <<>> /\ procs = <<>> /\ branch = None
    /\ collected = <<>> /\ ex = "none" /\ gitlogs = <<>>
    /\ result = Pending

NextGit ==
    \/ BranchGithub
    \/ BranchCi
    \/ BranchLocal
    \/ Gitlog
    \/ Remote

SpecGit == InitGit /\ [][NextGit]_vars

(***************************************************************************)
(*                    Properties of cli.main (SpecCli)                     *)
(***************************************************************************)

\* The priority order the specification states: merge > debug > output >
\* submit > finish, else the default submission.
HighestPriority(o) ==
    IF o["--merge"] THEN "--merge"
    ELSE IF o["debug"] THEN "debug"
    ELSE IF o["--output"] THEN "--output"
    ELSE IF o["--submit"] THEN "--submit"
    ELSE IF o["--finish"] THEN "--finish"
    ELSE "default"

ModeFlags == {"--merge", "debug", "--output", "--submit", "--finish"}

\* main() is over and had reached the dispatch of lines 106-111.
DispatchedRun ==
    entry = "main" /\ pc = "exited" /\ exit.stage \notin {"parse", "setup"}

C2_MergeThenSubmit ==
    (/\ entry = "main" /\ pc = "exited"
     /\ options["--merge"]
     /\ exit = Returned)
    => \E i, j \in 1..Len(calls) :
          i < j /\ calls[i] = "merge" /\ calls[j] = "wear()"

NetworkCalls == {"wear()", "submit_report", "parallel_finish"}

\* C3: when Debug or WriteFile is the selected mode, no network dispatch is
\* ever called: Debug only calls wear(dry_run=True) and has the logger at
\* DEBUG from set-up on, whatever --verbose was; WriteFile only calls
\* save_report.
C3_DebugAndOutputSendNothing ==
    /\ HighestPriority(options) = "debug" =>
          /\ Range(calls) \subseteq {"wear(dry_run=True)"}
          /\ pc \in {"dispatch", "exited"} => logLevel = "DEBUG"
          /\ DispatchedRun => calls = <<"wear(dry_run=True)">>
    /\ HighestPriority(options) = "--output" =>
          /\ Range(calls) \subseteq {"save_report"}
          /\ DispatchedRun => calls = <<"save_report">>
    /\ HighestPriority(options) \in {"debug", "--output"} =>
          Range(calls) \cap NetworkCalls = {}

C3_Witness ==
    /\ DispatchedRun
    /\ HighestPriority(options) = "debug" /\ options["--submit"]
    /\ calls = <<"wear(dry_run=True)">>
    /\ logLevel = "DEBUG"

ErrorLogged == \E i \in 1..Len(logs) : logs[i].level = "ERROR"

AbortedOnly ==
    /\ logs # <<>> /\ Last(logs) = Log("INFO", "Aborted")
    /\ ~ErrorLogged

\* C4 as stated: an exception raised at any stage (parsing, set-up, handler)
\* is caught: it ends the run with an error log and a non-zero status, or,
\* for KeyboardInterrupt, with status zero and the message 'Aborted'.
C4_CaughtAtEveryStage ==
    exit.exc # "none" =>
        IF exit.exc = "KeyboardInterrupt"
           THEN exit.how = "return" /\ exit.code = 0 /\ AbortedOnly
           ELSE exit.how = "sys.exit" /\ exit.code # 0 /\ ErrorLogged

\* C4 amended: an Exception raised by set-up or by the selected handler is
\* caught, logged as an error and ends the process with status 1; a
\* KeyboardInterrupt raised there ends main() normally with 'Aborted' and no
\* error log; an exception raised by version lookup or option parsing, or a
\* BaseException that is neither, leaves main() uncaught and unlogged.  After
\* a failure nothing more runs: at most the one handler that failed was
\* entered.
C4_CaughtInsideTry ==
    exit.exc # "none" =>
        /\ pc = "exited" /\ ~ENABLED NextCli
        /\ Len(handlers) = (IF exit.stage = "handler" THEN 1 ELSE 0)
        /\ IF exit.stage \in {"setup", "handler"} /\ exit.exc = "Exception"
              THEN /\ exit.how = "sys.exit" /\ exit.code # 0
                   /\ Last(logs).level = "ERROR"
           ELSE IF exit.stage \in {"setup", "handler"} /\ exit.exc = "KeyboardInterrupt"
              THEN exit.how = "return" /\ exit.code = 0 /\ AbortedOnly
           ELSE /\ exit.how = "propagate"
                /\ ~ErrorLogged
                /\ Log("INFO", "Aborted") \notin Range(logs)

C4_Witness ==
    /\ exit.exc = "Exception" /\ exit.stage = "handler"
    /\ exit.how = "sys.exit"
    /\ handlers = <<"--submit">> /\ calls = <<>>

(***************************************************************************)
(*                 Properties of git_branch (SpecBranch)                   *)
(***************************************************************************)

BranchDone == entry = "git_branch" /\ pc = "done"

\* A GITHUB_REF of the form refs/heads/<x> or refs/tags/<x>.
HasRefForm(ref) ==
    /\ ref # None /\ Len(ref) >= 4
    /\ ref[1] = "refs" /\ ref[2] = "/" /\ ref[3] \in {"heads", "tags"} /\ ref[4] = "/"

\* C7: with GITHUB_ACTIONS set, git_branch() is decided by GITHUB_REF and
\* GITHUB_HEAD_REF alone: refs/heads/<x> and refs/tags/<x> give the whole of
\* <x>, any other or missing GITHUB_REF gives GITHUB_HEAD_REF (None if unset);
\* no other variable is read and no command is run.
C7_GithubBranch ==
    (BranchDone /\ Truthy(env["GITHUB_ACTIONS"])) =>
        /\ result.status = "returned"
        /\ result.branch =
              IF HasRefForm(env["GITHUB_REF"])
                 THEN SubSeq(env["GITHUB_REF"], 5, Len(env["GITHUB_REF"]))
                 ELSE env["GITHUB_HEAD_REF"]
        /\ Range(reads) \subseteq {"GITHUB_ACTIONS", "GITHUB_REF", "GITHUB_HEAD_REF"}
        /\ cmds = <<>>

C7_Witness ==
    /\ BranchDone /\ Truthy(env["GITHUB_ACTIONS"])
    /\ env["GITHUB_REF"] = <<"refs", "/", "tags", "/", "x", "/", "x">>
    /\ Truthy(env["CIRCLE_BRANCH"])
    /\ result.branch = <<"x", "/", "x">>

\* The provider order the specification states.
ProviderOrder ==
    <<"APPVEYOR_REPO_BRANCH", "BUILDKITE_BRANCH", "CI_BRANCH", "CIRCLE_BRANCH",
      "GIT_BRANCH", "TRAVIS_BRANCH", "BRANCH_NAME">>

NonEmptyProviders == {i \in 1..Len(ProviderOrder) : Truthy(env[ProviderOrder[i]])}

FirstNonEmpty == CHOOSE i \in NonEmptyProviders : \A j \in NonEmptyProviders : i <= j

\* C8: without GITHUB_ACTIONS, git_branch() returns the first non-empty
\* variable in the order APPVEYOR_REPO_BRANCH, BUILDKITE_BRANCH, CI_BRANCH,
\* CIRCLE_BRANCH, GIT_BRANCH, TRAVIS_BRANCH, BRANCH_NAME, reading no later
\* one; the local branch query runs only when all seven are unset or empty,
\* and when it fails the branch is None and nothing is raised.
C8_CiCascade ==
    (BranchDone /\ ~Truthy(env["GITHUB_ACTIONS"])) =>
        /\ result.status = "returned"
        /\ IF NonEmptyProviders # {}
              THEN /\ result.branch = env[ProviderOrder[FirstNonEmpty]]
                   /\ cmds = <<>>
                   /\ \A j \in 1..Len(ProviderOrder) :
                         j > FirstNonEmpty => ProviderOrder[j] \notin Range(reads)
              ELSE /\ cmds = <<RevParse>>
                   /\ procs[1] # "ok" => result.branch = None

C8_Witness ==
    /\ BranchDone /\ ~Truthy(env["GITHUB_ACTIONS"])
    /\ env["CIRCLE_BRANCH"] = <<"CIRCLE_BRANCH">>
    /\ env["TRAVIS_BRANCH"] = <<"TRAVIS_BRANCH">>
    /\ result.branch = <<"CIRCLE_BRANCH">>

(***************************************************************************)
(*                   Properties of git_info (SpecGit)                      *)
(***************************************************************************)

InfoDone == entry = "git_info" /\ pc = "done"

\* One of the commands of git_info()'s try block (the six log queries and
\* the remote listing) failed: git absent or a non-zero exit.  The branch
\* query is not among them: get_git_branch() recovers its failure itself.
VcsCommandFailed ==
    \E i \in 1..Len(procs) :
        procs[i] \in {"CalledProcessError", "OSError"} /\ cmds[i] # RevParse

EightVariables ==
    {"GIT_ID", "GIT_AUTHOR_NAME", "GIT_AUTHOR_EMAIL", "GIT_COMMITTER_NAME",
     "GIT_COMMITTER_EMAIL", "GIT_MESSAGE", "GIT_REMOTE", "GIT_URL"}

SixHeadVariables ==
    {"GIT_ID", "GIT_AUTHOR_NAME", "GIT_AUTHOR_EMAIL", "GIT_COMMITTER_NAME",
     "GIT_COMMITTER_EMAIL", "GIT_MESSAGE"}

\* The head and remotes made of the fallback variables only.
HeadFromEnv(r) ==
    r.head = <<env["GIT_ID"], env["GIT_AUTHOR_NAME"], env["GIT_AUTHOR_EMAIL"],
               env["GIT_COMMITTER_NAME"], env["GIT_COMMITTER_EMAIL"],
               env["GIT_MESSAGE"]>>

RemotesFromEnv(r) == r.remotes = <<[name |-> env["GIT_REMOTE"], url |-> env["GIT_URL"]]>>

EmptyContext(r) == r.status = "returned" /\ ~r.git

\* C5: if a VCS command fails while all eight fallback variables are set,
\* git_info() returns a context whose head is exactly the six head variables
\* and whose remotes hold exactly the one entry GIT_REMOTE / GIT_URL,
\* whatever the earlier commands had returned.
C5_FullFallback ==
    (VcsCommandFailed /\ \A v \in EightVariables : Truthy(env[v])) =>
        /\ InfoDone
        /\ result.status = "returned" /\ result.git
        /\ HeadFromEnv(result)
        /\ RemotesFromEnv(result)

C5_Witness ==
    /\ InfoDone /\ VcsCommandFailed
    /\ \A v \in EightVariables : Truthy(env[v])
    /\ Len(collected) = 6 /\ Last(procs) = "OSError"
    /\ result.git /\ Len(result.remotes) = 1

OnlyWarned == gitlogs # <<>> /\ \A i \in 1..Len(gitlogs) : gitlogs[i].level = "WARNING"

\* C6 as stated: if a VCS command fails and at least one of the eight
\* fallback variables is unset or empty, git_info() returns {} after a
\* warning.
C6_PartialOfEight ==
    (VcsCommandFailed /\ \E v \in EightVariables : ~Truthy(env[v])) =>
        /\ EmptyContext(result)
        /\ OnlyWarned

\* C6 amended: if a VCS command fails and at least one of the six head
\* variables GIT_ID, GIT_AUTHOR_NAME, GIT_AUTHOR_EMAIL, GIT_COMMITTER_NAME,
\* GIT_COMMITTER_EMAIL, GIT_MESSAGE is unset or empty, git_info() returns {}
\* after a warning and no error.
C6_PartialOfSix ==
    (VcsCommandFailed /\ \E v \in SixHeadVariables : ~Truthy(env[v])) =>
        /\ InfoDone
        /\ EmptyContext(result)
        /\ OnlyWarned

C6_Witness ==
    /\ InfoDone /\ VcsCommandFailed
    /\ Truthy(env["GIT_ID"]) /\ env["GIT_MESSAGE"] = <<>>
    /\ EmptyContext(result) /\ OnlyWarned

\* C9: git_info() never raises, whatever each command does.
C9_NeverRaises == result.status # "raised"

\* What the live queries can yield for the i-th head field, and the names
\* and urls `git remote -v` can list.
LiveValues(i) ==
    {Strip(p.stdout) : p \in {q \in GitlogProcs(HeadFormats[i]) : q.kind = "ok"}}

HeadFromLive(r) == \A i \in 1..Len(HeadFields) : r.head[i] \in LiveValues(i)

RemotesFromLive(r) ==
    \A k \in 1..Len(r.remotes) :
        /\ r.remotes[k].name \in {"origin", "upstream"}
        /\ r.remotes[k].url \in {"url1", "url2"}

\* C10: a context git_info() returns has one source: all six head fields
\* and the remotes come from the live queries, or all six head fields and
\* the single remote come from the fallback variables, or it is {}.
C10_SingleSource ==
    (InfoDone /\ result.status = "returned") =>
        \/ ~result.git
        \/ /\ ~VcsCommandFailed
           /\ Len(result.head) = 6 /\ HeadFromLive(result) /\ RemotesFromLive(result)
        \/ /\ VcsCommandFailed
           /\ HeadFromEnv(result) /\ RemotesFromEnv(result)

C10_Witness ==
    /\ InfoDone /\ result.status = "returned" /\ result.git
    /\ Len(collected) = 3 /\ VcsCommandFailed
    /\ HeadFromEnv(result)

====
